---- MODULE Spec2Model ----
(***************************************************************************)
(* Lexical primitives of the IRC grammar (src/src/parser.rs): space, crlf, *)
(* one_char, letter, number, special, nonwhite.  Every rule is a pure      *)
(* function from a byte view to Ok((remainder, consumed)) or               *)
(* Err(Err::Error((input, kind))).  A byte view is a sequence of integers  *)
(* in 0..255.  The state machine is a caller that holds a view, applies a  *)
(* rule to it and continues from the view the rule handed back.            *)
(***************************************************************************)
EXTENDS Integers, Sequences, FiniteSets

VARIABLES input, last, prev

vars == <<input, last, prev>>

(* Longest input the caller starts from. *)
MaxLen == 3

(* Byte values the source names. *)
SP  == 32
NUL == 0
CR  == 13
LF  == 10

Byte == 0..255

(* Bytes that follow the first one.  Only space and crlf look past the     *)
(* first byte, and they tell apart 0x20, 0x0D, 0x0A and everything else.   *)
TailByte == {SP, CR, LF, 97}

RuleNames == {"space", "crlf", "one_char", "letter", "number", "special", "nonwhite"}

SeqsUpTo(S, n) == UNION {[1..k -> S] : k \in 0..n}

Inputs == {<<>>} \cup {<<b>> \o t : b \in Byte, t \in SeqsUpTo(TailByte, MaxLen - 1)}

(* Rust slices, 0-based and end-exclusive: &s[a..b] and &s[a..]. *)
slice(s, a, b) == SubSeq(s, a + 1, b)
slice_from(s, a) == SubSeq(s, a + 1, Len(s))

(* IResult values. *)
Ok(rest, out) == [tag |-> "Ok", rest |-> rest, out |-> out, kind |-> "None"]
ErrError(inp, kind) == [tag |-> "Error", rest |-> inp, out |-> <<>>, kind |-> kind]

(* ---- space: nom::bytes::complete::take_while1(|item| item == b' ') ---- *)

is_space_item(item) == item = SP

(* Index (0-based) of the first byte that is not in the run, or -1 (None). *)
RECURSIVE position_from(_, _)
position_from(s, i) ==
  IF i >= Len(s) THEN -1
  ELSE IF ~is_space_item(s[i + 1]) THEN i
  ELSE position_from(s, i + 1)

take_while1_m3(s) ==
  LET p == position_from(s, 0) IN
  IF p = 0 THEN ErrError(s, "TakeWhile1")
  ELSE IF p > 0 THEN Ok(slice_from(s, p), slice(s, 0, p))
  ELSE ErrError(s, "TakeWhile1")

take_while1(s) ==
  LET p == position_from(s, 0) IN
  IF p = 0 THEN ErrError(s, "TakeWhile1")
  ELSE IF p > 0 THEN Ok(slice_from(s, p), slice(s, 0, p))
  ELSE IF Len(s) = 0 THEN ErrError(s, "TakeWhile1")
  ELSE Ok(slice_from(s, Len(s)), slice(s, 0, Len(s)))

space_m10(s) ==
  IF Len(s) = 0 \/ ~is_space_item(s[1]) THEN ErrError(s, "TakeWhile1")
  ELSE Ok(slice_from(s, 1), slice(s, 0, 1))

space(s) == take_while1(s)

(* ---- crlf: nom::character::complete::crlf ---- *)

CRLF == <<CR, LF>>

Min(a, b) == IF a <= b THEN a ELSE b

compare_m4(s, t) ==
  IF Len(s) > 0 /\ s[1] # t[1] THEN "Error"
  ELSE IF Len(s) < Len(t) THEN "Incomplete"
  ELSE "Ok"

compare(s, t) ==
  IF \E i \in 1..Min(Len(s), Len(t)) : s[i] # t[i] THEN "Error"
  ELSE IF Len(s) < Len(t) THEN "Incomplete"
  ELSE "Ok"

crlf(s) ==
  IF compare(s, CRLF) = "Ok" THEN Ok(slice_from(s, 2), slice(s, 0, 2))
  ELSE ErrError(s, "CrLf")

(* ---- single-byte rules ---- *)

one_char_m1(s) ==
  IF Len(s) = 0 THEN ErrError(s, "Char")
  ELSE Ok(slice_from(s, 1), slice(s, 0, Len(s)))

one_char_m9(s) ==
  IF Len(s) = 0 \/ s[1] = NUL THEN ErrError(s, "Char")
  ELSE Ok(slice_from(s, 1), slice(s, 0, 1))

one_char(s) ==
  IF Len(s) = 0 THEN ErrError(s, "Char")
  ELSE Ok(slice_from(s, 1), slice(s, 0, 1))

is_alpha_m5(b) == (b >= 65 /\ b <= 91) \/ (b >= 97 /\ b <= 122)

is_alpha(b) == (b >= 65 /\ b <= 90) \/ (b >= 97 /\ b <= 122)

letter(s) ==
  IF Len(s) = 0 \/ ~is_alpha(s[1]) THEN ErrError(s, "Char")
  ELSE Ok(slice_from(s, 1), slice(s, 0, 1))

is_dec_digit_m8(b) == b >= 48 /\ b <= 55

is_dec_digit(b) == b >= 48 /\ b <= 57

number_m2(s) ==
  IF Len(s) = 0 THEN ErrError(s, "Char")
  ELSE IF ~is_dec_digit(s[1]) THEN ErrError(slice_from(s, 1), "Char")
  ELSE Ok(slice_from(s, 1), slice(s, 0, 1))

number(s) ==
  IF Len(s) = 0 \/ ~is_dec_digit(s[1]) THEN ErrError(s, "Char")
  ELSE Ok(slice_from(s, 1), slice(s, 0, 1))

special_m7(s) ==
  IF Len(s) = 0
     \/ ~(s[1] = 45 \/ s[1] = 91 \/ s[1] = 93 \/ s[1] = 92
          \/ s[1] = 94 \/ s[1] = 123 \/ s[1] = 125)
  THEN ErrError(s, "Char")
  ELSE Ok(slice_from(s, 1), slice(s, 0, 1))

special(s) ==
  IF Len(s) = 0
     \/ ~(s[1] = 45 \/ s[1] = 91 \/ s[1] = 93 \/ s[1] = 92
          \/ s[1] = 96 \/ s[1] = 94 \/ s[1] = 123 \/ s[1] = 125)
  THEN ErrError(s, "Char")
  ELSE Ok(slice_from(s, 1), slice(s, 0, 1))

nonwhite_m6(s) ==
  IF Len(s) = 0 \/ s[1] = SP \/ s[1] = CR \/ s[1] = LF
  THEN ErrError(s, "Char")
  ELSE Ok(slice_from(s, 1), slice(s, 0, 1))

nonwhite(s) ==
  IF Len(s) = 0 \/ s[1] = SP \/ s[1] = NUL \/ s[1] = CR \/ s[1] = LF
  THEN ErrError(s, "Char")
  ELSE Ok(slice_from(s, 1), slice(s, 0, 1))

(* ---- the caller ---- *)

NoCall == [rule |-> "none", arg |-> <<>>, res |-> ErrError(<<>>, "None")]

Call(rule, res) ==
  /\ prev' = last
  /\ last' = [rule |-> rule, arg |-> input, res |-> res]
  /\ input' = res.rest

Space    == Call("space", space(input))
Crlf     == Call("crlf", crlf(input))
OneChar  == Call("one_char", one_char(input))
Letter   == Call("letter", letter(input))
Number   == Call("number", number(input))
Special  == Call("special", special(input))
Nonwhite == Call("nonwhite", nonwhite(input))

Init ==
  /\ input \in Inputs
  /\ last = NoCall
  /\ prev = NoCall

Next ==
  \/ Space
  \/ Crlf
  \/ OneChar
  \/ Letter
  \/ Number
  \/ Special
  \/ Nonwhite

Spec == Init /\ [][Next]_vars

(* ---- properties ---- *)

Applied(rule) == last.rule = rule
Succeeded == last.res.tag = "Ok"
FirstByteIn(S) == Len(last.arg) > 0 /\ last.arg[1] \in S

(* Shape shared by the single-byte rules: accept exactly the first bytes   *)
(* in S, consume that one byte, otherwise Err::Error((input, Char)).       *)
OneByteRule(rule, S) ==
  Applied(rule) =>
    IF FirstByteIn(S)
    THEN /\ last.res.tag = "Ok"
         /\ last.res.out = <<last.arg[1]>>
         /\ last.res.rest = Tail(last.arg)
         /\ input = Tail(last.arg)
    ELSE /\ last.res.tag = "Error"
         /\ last.res.kind = "Char"
         /\ last.res.rest = last.arg

(* C1: whenever any of the seven rules succeeds, consumed ++ remainder is  *)
(* the original input, byte for byte.                                      *)
C1_RoundTrip ==
  (last.rule \in RuleNames /\ Succeeded) =>
    last.res.out \o last.res.rest = last.arg

C1_Witness ==
  /\ Applied("space") /\ Succeeded
  /\ Len(last.res.out) = 2 /\ Len(last.res.rest) = 1

(* C2: whenever any of the seven rules fails, the failure is the           *)
(* recoverable Err::Error, it carries exactly the original input, and the  *)
(* caller is left on that same input for the next rule.                    *)
C2_FailureNeverAdvances ==
  (last.rule \in RuleNames /\ ~Succeeded) =>
    /\ last.res.tag = "Error"
    /\ last.res.rest = last.arg
    /\ input = last.arg

C2_Witness ==
  /\ prev.rule = "space" /\ prev.res.tag = "Error"
  /\ Applied("number") /\ last.res.tag = "Error"
  /\ last.arg = prev.arg /\ Len(last.arg) = 3

(* C3: space succeeds exactly on a non-empty input whose first byte is     *)
(* 0x20; it then consumes the longest prefix of 0x20 bytes and returns the *)
(* rest; otherwise it fails with TakeWhile1 and the untouched input.       *)
C3_SpaceContract ==
  Applied("space") =>
    IF FirstByteIn({32})
    THEN /\ last.res.tag = "Ok"
         /\ \E n \in 1..Len(last.arg) :
              /\ \A i \in 1..n : last.arg[i] = 32
              /\ n = Len(last.arg) \/ last.arg[n + 1] # 32
              /\ last.res.out = SubSeq(last.arg, 1, n)
              /\ last.res.rest = SubSeq(last.arg, n + 1, Len(last.arg))
    ELSE /\ last.res.tag = "Error"
         /\ last.res.kind = "TakeWhile1"
         /\ last.res.rest = last.arg

C3_Witness ==
  /\ Applied("space") /\ Succeeded
  /\ Len(last.arg) = 3 /\ last.res.out = last.arg /\ last.res.rest = <<>>

(* C4: crlf succeeds exactly when the input starts with 0x0D 0x0A; it then *)
(* consumes those two bytes and returns the input from the third byte on;  *)
(* otherwise it fails with CrLf and the original input.                    *)
C4_CrlfContract ==
  Applied("crlf") =>
    IF Len(last.arg) >= 2 /\ last.arg[1] = 13 /\ last.arg[2] = 10
    THEN /\ last.res.tag = "Ok"
         /\ last.res.out = <<13, 10>>
         /\ last.res.rest = SubSeq(last.arg, 3, Len(last.arg))
    ELSE /\ last.res.tag = "Error"
         /\ last.res.kind = "CrLf"
         /\ last.res.rest = last.arg

C4_Witness ==
  /\ Applied("crlf") /\ Succeeded
  /\ Len(last.arg) = 3 /\ Len(last.res.rest) = 1

(* C5: letter accepts exactly a first byte in 0x41-0x5A or 0x61-0x7A,      *)
(* consumes that one byte, and otherwise fails with Char and the untouched *)
(* input.                                                                  *)
C5_LetterContract == OneByteRule("letter", (65..90) \cup (97..122))

C5_Witness ==
  /\ Applied("letter") /\ Succeeded
  /\ last.arg[1] = 90 /\ Len(last.res.rest) = 2

(* C6: nonwhite accepts every first byte except 0x20, 0x00, 0x0D and 0x0A  *)
(* (tab and bytes above 0x7F included), consumes that one byte, and        *)
(* otherwise fails with Char and the original input.                       *)
C6_NonwhiteContract == OneByteRule("nonwhite", (0..255) \ {32, 0, 13, 10})

C6_Witness ==
  /\ Applied("nonwhite") /\ Succeeded
  /\ last.arg[1] > 127 /\ Len(last.res.rest) > 0

(* C7: special accepts exactly the eight bytes - [ ] \ ` ^ { } as first    *)
(* byte, consumes that one byte, and otherwise fails with Char and the     *)
(* original input.                                                         *)
C7_SpecialContract == OneByteRule("special", {45, 91, 93, 92, 96, 94, 123, 125})

C7_Witness ==
  /\ Applied("special") /\ Succeeded
  /\ last.arg[1] = 96 /\ Len(last.res.rest) > 0

(* C8: number accepts exactly a first byte in 0x30-0x39, consumes that one *)
(* byte, and otherwise fails with Char and the original input.             *)
C8_NumberContract == OneByteRule("number", 48..57)

C8_Witness ==
  /\ Applied("number") /\ Succeeded
  /\ last.arg[1] = 57 /\ Len(last.res.rest) > 0

(* C9: one_char succeeds on every non-empty input whatever its first byte, *)
(* consuming exactly that byte, and fails with Char carrying the empty     *)
(* input only on the empty input.                                          *)
C9_OneCharContract == OneByteRule("one_char", 0..255)

C9_Witness ==
  /\ Applied("one_char") /\ Succeeded
  /\ last.arg[1] = 0 /\ Len(last.res.rest) > 0

(* C10: after a successful space the remainder is empty or starts with a   *)
(* byte other than 0x20, and space applied next, to that remainder, fails  *)
(* with TakeWhile1 and leaves the remainder unchanged.                     *)
C10_SpaceNeverTwice ==
  (prev.rule = "space" /\ prev.res.tag = "Ok") =>
    /\ prev.res.rest = <<>> \/ prev.res.rest[1] # 32
    /\ Applied("space") =>
         /\ last.arg = prev.res.rest
         /\ last.res.tag = "Error"
         /\ last.res.kind = "TakeWhile1"
         /\ last.res.rest = prev.res.rest
         /\ input = prev.res.rest

C10_Witness ==
  /\ prev.rule = "space" /\ prev.res.tag = "Ok"
  /\ Applied("space") /\ Len(last.arg) > 0

====
